---------------------------- MODULE Spec2Model ----------------------------
(***************************************************************************)
(* Model of dictation.py: the hotkey toggle handler on_toggle(), the       *)
(* recorder (start_recording / stop_recording / _audio_callback), the      *)
(* background task _process_recording() with transcribe() and              *)
(* inject_text(), and the module-level state they share.                   *)
(*                                                                         *)
(* Strings are sequences of characters; the characters that matter are     *)
(* "SP" (space), "CR" (carriage return) and "LF" (line feed).              *)
(***************************************************************************)
EXTENDS Integers, Sequences, FiniteSets, TLC

(* ------------------------------ bounds --------------------------------- *)

\* threads that may call on_toggle()
NumThreads == 2

\* on_toggle() calls in one behaviour
MaxToggles == 4

\* blocks the audio callback delivers into one list
MaxBlocks == 2

(* --------------------------- program constants -------------------------- *)

SAMPLE_RATE == 16000

\* duration < 0.3 is decided as frames * MinDurationDen < MinDurationNum * SAMPLE_RATE
MinDurationNum == 3

MinDurationDen == 10

(* ------------------------------ domains -------------------------------- *)

Threads == 1 .. NumThreads

NoThread == 0

\* the value None of the global `stream`
None == 0

\* frame counts of the blocks the input stream delivers
BlockFrames == {2400}

\* what the clipboard may hold when the program starts
InitClipboards == { <<"c">>, <<"c", "CR">> }

\* raw replies of the transcription API
ApiResponses == { <<>>, <<"SP">>, <<"SP", "h", "LF">> }

Whitespace == {"SP", "CR", "LF"}

\* the temporary file does not exist
NoFile == [by |-> 0, data |-> <<>>]

VARIABLES
    is_recording,   \* global flag, line 44
    audio_chunks,   \* the list the global `audio_chunks` is bound to, line 45
    stream,         \* global `stream`: None or the id of an InputStream, line 46
    lock,           \* holder of the threading.Lock, NoThread when free, line 47
    open,           \* ids of the InputStreams opened and not closed
    active,         \* ids of the InputStreams started and not stopped
    tpc,            \* position of each thread inside on_toggle()
    tres,           \* how the on_toggle() that returned last ended
    ntog,           \* number of on_toggle() calls that entered the lock
    tasks,          \* the background threads running _process_recording()
    clipboard,      \* the system pasteboard
    tmp             \* the file dictation_recording.wav

vars == << is_recording, audio_chunks, stream, lock, open, active, tpc, tres,
           ntog, tasks, clipboard, tmp >>

(* --------------------------- pure functions ---------------------------- *)

\* len(np.concatenate(chunks, axis=0)): the number of samples
RECURSIVE SampleCount(_)
SampleCount(chunks) ==
    IF chunks = <<>> THEN 0
    ELSE Head(chunks).frames + SampleCount(Tail(chunks))

\* the duration test with the threshold taken as 0.03 s
TooShortCentis(audio) ==
    SampleCount(audio) * MinDurationDen * 10 < MinDurationNum * SAMPLE_RATE

\* duration = len(audio) / SAMPLE_RATE; duration < 0.3
TooShort(audio) ==
    SampleCount(audio) * MinDurationDen < MinDurationNum * SAMPLE_RATE

\* str.strip(): drop leading and trailing whitespace
RECURSIVE LStrip(_)
LStrip(s) ==
    IF s # <<>> /\ Head(s) \in Whitespace THEN LStrip(Tail(s)) ELSE s

RECURSIVE RStrip(_)
RStrip(s) ==
    IF s # <<>> /\ s[Len(s)] \in Whitespace
    THEN RStrip(SubSeq(s, 1, Len(s) - 1)) ELSE s

Strip(s) == RStrip(LStrip(s))

\* subprocess text mode on captured output: "\r\n" and "\r" become "\n"
RECURSIVE TranslateNewlines(_)
TranslateNewlines(s) ==
    IF s = <<>> THEN <<>>
    ELSE IF Head(s) = "CR"
         THEN IF Len(s) >= 2 /\ s[2] = "LF"
              THEN <<"LF">> \o TranslateNewlines(SubSeq(s, 3, Len(s)))
              ELSE <<"LF">> \o TranslateNewlines(Tail(s))
         ELSE <<Head(s)>> \o TranslateNewlines(Tail(s))

\* the injection made unconditional
AlwaysTruthy(text) == TRUE

\* `if text:` in _process_recording
TextTruthy(text) == text # <<>>

(* ------------------------------- Init ---------------------------------- *)

Init ==
    /\ is_recording = FALSE
    /\ audio_chunks = <<>>
    /\ stream = None
    /\ lock = NoThread
    /\ open = {}
    /\ active = {}
    /\ tpc = [t \in Threads |-> "idle"]
    /\ tres = "none"
    /\ ntog = 0
    /\ tasks = <<>>
    /\ clipboard \in InitClipboards
    /\ tmp = NoFile

(* ----------------------------- on_toggle ------------------------------- *)

\* on_toggle() without the `with lock:` guard
LockIgnored == TRUE

\* `with lock:` can be entered
LockAvailable == lock = NoThread

\* the lock after the `with` block is left, normally or by an exception
LockReleased(t) == NoThread

\* an exception leaves on_toggle(): the `with` block releases the lock
Raise(t, how) ==
    /\ lock' = LockReleased(t)
    /\ tpc' = [tpc EXCEPT ![t] = "idle"]
    /\ tres' = how

\* on_toggle(): acquire the lock and evaluate `not is_recording`
on_toggle_enter(t) ==
    /\ tpc[t] = "idle"
    /\ ntog < MaxToggles
    /\ LockAvailable
    /\ lock' = t
    /\ ntog' = ntog + 1
    /\ tpc' = [tpc EXCEPT ![t] = IF ~is_recording THEN "start" ELSE "stop"]
    /\ UNCHANGED << is_recording, audio_chunks, stream, open, active, tres,
                    tasks, clipboard, tmp >>

\* is_recording = True; start_recording() up to the sleep: the list is
\* rebound to a new empty list, then play_sound() and notify() run
start_recording_reset(t) ==
    /\ tpc[t] = "start"
    /\ is_recording' = TRUE
    /\ audio_chunks' = <<>>
    /\ \E cue_ok \in BOOLEAN :
          IF cue_ok
          THEN /\ tpc' = [tpc EXCEPT ![t] = "open"]
               /\ UNCHANGED << lock, tres >>
          ELSE Raise(t, "cue_failed_start")
    /\ UNCHANGED << stream, open, active, ntog, tasks, clipboard, tmp >>

\* stream = sd.InputStream(...); stream.start(); leave the `with` block
start_recording_open(t) ==
    /\ tpc[t] = "open"
    /\ \E outcome \in {"ok", "open_failed", "start_failed"} :
          CASE outcome = "open_failed" ->
                 /\ Raise(t, "open_failed")
                 /\ UNCHANGED << stream, open, active >>
            [] outcome = "start_failed" ->
                 /\ stream' = ntog
                 /\ open' = open \cup {ntog}
                 /\ Raise(t, "start_failed")
                 /\ UNCHANGED active
            [] outcome = "ok" ->
                 /\ stream' = ntog
                 /\ open' = open \cup {ntog}
                 /\ active' = active \cup {ntog}
                 /\ lock' = LockReleased(t)
                 /\ tpc' = [tpc EXCEPT ![t] = "idle"]
                 /\ tres' = "started"
    /\ UNCHANGED << is_recording, audio_chunks, ntog, tasks, clipboard, tmp >>

\* the lock kept until the background thread has finished
LockHeldForTask(t) == t

\* the lock once threading.Thread(...).start() has returned and the `with`
\* block is left: start() does not wait for the thread
LockAfterSpawn(t) == NoThread

\* the record of a background thread at threading.Thread(...).start()
\*   pc, res      position in _process_recording and how the thread ended
\*   audio        the local `audio` of line 189 (blocks in order)
\*   text         the local `text` of line 196
\*   orig         the local `original_clipboard` of line 163
\* and what is remembered of its run:
\*   captured     the list the stop of this thread's session left behind
\*   ntranscribe, ninject   calls of transcribe() and inject_text()
\*   sent         the file contents uploaded at line 129
\*   errAt        0, or the toggle count when the API call raised
\*   returned     transcribe() returned a value
\*   before, after   the clipboard when inject_text() began and returned
\*   readOk, writeFailed   pbpaste succeeded; some pbcopy failed
\*   overlapped   another inject_text() ran during this one
\*   pasted       what the clipboard held at the Cmd+V chord
NewTask ==
    [ pc |-> "check", res |-> "run",
      captured |-> audio_chunks, audio |-> <<>>,
      ntranscribe |-> 0, sent |-> NoFile, errAt |-> 0,
      returned |-> FALSE, text |-> <<>>,
      ninject |-> 0, overlapped |-> FALSE, before |-> <<>>, readOk |-> TRUE,
      orig |-> <<>>, writeFailed |-> FALSE, pasted |-> <<>>, after |-> <<>> ]

\* is_recording = False; stop_recording(); start the background thread;
\* leave the `with` block
on_toggle_stop(t) ==
    /\ tpc[t] = "stop"
    /\ is_recording' = FALSE
    /\ \E outcome \in {"ok", "stop_failed", "close_failed", "cue_failed"} :
          CASE outcome = "stop_failed" ->
                 /\ stream # None
                 /\ Raise(t, "stop_failed")
                 /\ UNCHANGED << stream, open, active, tasks >>
            [] outcome = "close_failed" ->
                 /\ stream # None
                 /\ active' = active \ {stream}
                 /\ Raise(t, "close_failed")
                 /\ UNCHANGED << stream, open, tasks >>
            [] outcome = "cue_failed" ->
                 /\ stream' = None
                 /\ open' = open \ {stream}
                 /\ active' = active \ {stream}
                 /\ Raise(t, "cue_failed_stop")
                 /\ UNCHANGED tasks
            [] outcome = "ok" ->
                 /\ stream' = None
                 /\ open' = open \ {stream}
                 /\ active' = active \ {stream}
                 /\ tasks' = Append(tasks, NewTask)
                 /\ lock' = LockAfterSpawn(t)
                 /\ tpc' = [tpc EXCEPT ![t] = "idle"]
                 /\ tres' = "stopped"
    /\ UNCHANGED << audio_chunks, ntog, clipboard, tmp >>

\* the PortAudio thread delivers one block of a started stream
_audio_callback ==
    /\ Len(audio_chunks) < MaxBlocks
    /\ \E s \in active, f \in BlockFrames :
          audio_chunks' = Append(audio_chunks, [sess |-> s, frames |-> f])
    /\ UNCHANGED << is_recording, stream, lock, open, active, tpc, tres, ntog,
                    tasks, clipboard, tmp >>

(* ------------------------- _process_recording -------------------------- *)

TaskIds == 1 .. Len(tasks)

\* the background thread is inside inject_text()
InInject(r) == r.pc \in {"set", "paste", "restore"}

\* the background thread is inside transcribe()
InTranscribe(r) == r.pc \in {"write", "send", "reply"}

\* the thread ends: a return, a caught exception or an uncaught one
Done(r, how) == [r EXCEPT !.pc = "done", !.res = how]

\* the emptiness test left out
NeverEmpty(chunks) == FALSE

\* `not audio_chunks`
NoAudio(chunks) == chunks = <<>>

\* `if not audio_chunks:` reads the global list
_process_check(k) ==
    /\ tasks[k].pc = "check"
    /\ tasks' = [tasks EXCEPT ![k] =
                    IF NoAudio(audio_chunks) THEN Done(@, "no_audio")
                    ELSE [@ EXCEPT !.pc = "concat"]]
    /\ UNCHANGED << is_recording, audio_chunks, stream, lock, open, active,
                    tpc, tres, ntog, clipboard, tmp >>

\* audio = np.concatenate(audio_chunks, axis=0) reads the global list again
\* (an empty list raises ValueError outside the try); then the duration test
\* and, when it passes, the call transcribe(audio)
_process_concat(k) ==
    /\ tasks[k].pc = "concat"
    /\ tasks' = [tasks EXCEPT ![k] =
                    IF audio_chunks = <<>> THEN Done(@, "uncaught")
                    ELSE IF TooShort(audio_chunks)
                         THEN Done([@ EXCEPT !.audio = audio_chunks],
                                   "too_short")
                         ELSE [@ EXCEPT !.audio = audio_chunks,
                                        !.pc = "write",
                                        !.ntranscribe = @ + 1]]
    /\ UNCHANGED << is_recording, audio_chunks, stream, lock, open, active,
                    tpc, tres, ntog, clipboard, tmp >>

(* ----------------------------- transcribe ------------------------------ *)

\* wavfile.write(tmp, SAMPLE_RATE, audio): create or overwrite the file
transcribe_write(k) ==
    /\ tasks[k].pc = "write"
    /\ tmp' = [by |-> k, data |-> tasks[k].audio]
    /\ tasks' = [tasks EXCEPT ![k].pc = "send"]
    /\ UNCHANGED << is_recording, audio_chunks, stream, lock, open, active,
                    tpc, tres, ntog, clipboard >>

\* open(tmp, "rb") and the upload of what the file holds; a missing file
\* raises FileNotFoundError, caught at line 205
transcribe_send(k) ==
    /\ tasks[k].pc = "send"
    /\ tasks' = [tasks EXCEPT ![k] =
                    IF tmp = NoFile
                    THEN Done(@, "err_open")
                    ELSE [@ EXCEPT !.sent = tmp, !.pc = "reply"]]
    /\ UNCHANGED << is_recording, audio_chunks, stream, lock, open, active,
                    tpc, tres, ntog, clipboard, tmp >>

\* the API call raised and the mistake of carrying on to the injection
ApiErrorIgnored(r) == [r EXCEPT !.errAt = ntog, !.text = <<"h">>, !.pc = "get"]

\* the API call raised: the exception leaves transcribe() at line 129 and
\* is caught at line 205
ApiErrorCaught(r) == Done([r EXCEPT !.errAt = ntog], "err_api")

\* the API answers or fails; on an answer os.remove(tmp), the strip and
\* `if text:`
transcribe_reply(k) ==
    /\ tasks[k].pc = "reply"
    /\ \/ /\ tasks' = [tasks EXCEPT ![k] = ApiErrorCaught(@)]
          /\ tmp' = tmp
       \/ \E raw \in ApiResponses :
             IF tmp = NoFile
             THEN /\ tasks' = [tasks EXCEPT ![k] = Done(@, "err_remove")]
                  /\ tmp' = tmp
             ELSE /\ tmp' = NoFile
                  /\ tasks' = [tasks EXCEPT ![k] =
                        IF TextTruthy(Strip(raw))
                        THEN [@ EXCEPT !.text = Strip(raw),
                                       !.returned = TRUE, !.pc = "get"]
                        ELSE Done([@ EXCEPT !.text = Strip(raw),
                                            !.returned = TRUE], "empty")]
    /\ UNCHANGED << is_recording, audio_chunks, stream, lock, open, active,
                    tpc, tres, ntog, clipboard >>

(* ----------------------------- inject_text ----------------------------- *)

\* _get_clipboard() handing back a placeholder instead of "" on an exception
_get_clipboard_placeholder(read_ok) ==
    IF read_ok THEN TranslateNewlines(clipboard) ELSE <<"?">>

\* _get_clipboard(): pbpaste's output in text mode, "" on any exception
_get_clipboard(read_ok) ==
    IF read_ok THEN TranslateNewlines(clipboard) ELSE <<>>

\* pbcopy run without input=text: the clipboard is emptied
_set_clipboard_no_input(text, write_ok) ==
    clipboard' = IF write_ok THEN <<>> ELSE clipboard

\* _set_clipboard(text): pbcopy; an exception is printed and swallowed
_set_clipboard(text, write_ok) ==
    clipboard' = IF write_ok THEN text ELSE clipboard

\* inject_text() entered only when no other call of it is running
InjectSerialized(k) ==
    \A j \in TaskIds : j # k => ~InInject(tasks[j])

\* inject_text() takes no lock: a call can begin whatever the other
\* background threads are doing
InjectAdmitted(k) == TRUE

\* notify(preview) and, unless it raised, the call inject_text(text) up to
\* original_clipboard = _get_clipboard()
inject_get(k) ==
    /\ tasks[k].pc = "get"
    /\ InjectAdmitted(k)
    /\ \E notify_ok \in BOOLEAN, read_ok \in BOOLEAN :
          IF ~notify_ok
          THEN /\ read_ok
               /\ tasks' = [tasks EXCEPT ![k] = Done(@, "err_notify")]
          ELSE tasks' = [j \in TaskIds |->
                   IF j = k
                   THEN [tasks[k] EXCEPT
                           !.pc = "set",
                           !.ninject = @ + 1,
                           !.before = clipboard,
                           !.orig = _get_clipboard(read_ok),
                           !.readOk = read_ok,
                           !.overlapped =
                              \E i \in TaskIds : i # k /\ InInject(tasks[i])]
                   ELSE IF InInject(tasks[j])
                        THEN [tasks[j] EXCEPT !.overlapped = TRUE]
                        ELSE tasks[j]]
    /\ UNCHANGED << is_recording, audio_chunks, stream, lock, open, active,
                    tpc, tres, ntog, clipboard, tmp >>

\* _set_clipboard(text); time.sleep(0.05)
inject_set(k) ==
    /\ tasks[k].pc = "set"
    /\ \E write_ok \in BOOLEAN :
          /\ _set_clipboard(tasks[k].text, write_ok)
          /\ tasks' = [tasks EXCEPT ![k] =
                          [@ EXCEPT !.pc = "paste",
                                    !.writeFailed = ~write_ok]]
    /\ UNCHANGED << is_recording, audio_chunks, stream, lock, open, active,
                    tpc, tres, ntog, tmp >>

\* the Cmd+V chord: the focused application receives what the clipboard
\* holds; an exception of the keyboard controller is caught at line 205
inject_paste(k) ==
    /\ tasks[k].pc = "paste"
    /\ \E paste_ok \in BOOLEAN :
          tasks' = [tasks EXCEPT ![k] =
                       IF paste_ok
                       THEN [@ EXCEPT !.pasted = clipboard, !.pc = "restore"]
                       ELSE Done(@, "err_paste")]
    /\ UNCHANGED << is_recording, audio_chunks, stream, lock, open, active,
                    tpc, tres, ntog, clipboard, tmp >>

\* time.sleep(0.25); _set_clipboard(original_clipboard); inject_text returns
inject_restore(k) ==
    /\ tasks[k].pc = "restore"
    /\ \E write_ok \in BOOLEAN :
          /\ _set_clipboard(tasks[k].orig, write_ok)
          /\ tasks' = [tasks EXCEPT ![k] =
                          Done([@ EXCEPT !.after = clipboard',
                                         !.writeFailed = @ \/ ~write_ok],
                               "ok")]
    /\ UNCHANGED << is_recording, audio_chunks, stream, lock, open, active,
                    tpc, tres, ntog, tmp >>

Next ==
    \/ \E t \in Threads : on_toggle_enter(t)
    \/ \E t \in Threads : start_recording_reset(t)
    \/ \E t \in Threads : start_recording_open(t)
    \/ \E t \in Threads : on_toggle_stop(t)
    \/ _audio_callback
    \/ \E k \in TaskIds : _process_check(k)
    \/ \E k \in TaskIds : _process_concat(k)
    \/ \E k \in TaskIds : transcribe_write(k)
    \/ \E k \in TaskIds : transcribe_send(k)
    \/ \E k \in TaskIds : transcribe_reply(k)
    \/ \E k \in TaskIds : inject_get(k)
    \/ \E k \in TaskIds : inject_set(k)
    \/ \E k \in TaskIds : inject_paste(k)
    \/ \E k \in TaskIds : inject_restore(k)

Spec == Init /\ [][Next]_vars

(* ------------------------------ claims --------------------------------- *)

\* no thread is inside on_toggle()
NoToggleInProgress == \A t \in Threads : tpc[t] = "idle"

\* the task has executed line 189 on a non-empty list
HasConcatenated(r) == r.audio # <<>>

\* C1: if opening or starting the input stream fails inside a Toggle()
\* issued while Idle, the state is Idle once that Toggle() has returned.
C1_StartFailureLeavesIdle ==
    (NoToggleInProgress /\ tres \in {"open_failed", "start_failed"})
        => ~is_recording

\* C2: the audio a background task examines and passes to transcribe() is
\* exactly the sequence of blocks captured in the session its stop ended.
C2_TaskReadsItsOwnSession ==
    \A k \in TaskIds :
        /\ HasConcatenated(tasks[k]) => tasks[k].audio = tasks[k].captured
        /\ tasks[k].res \in {"no_audio", "uncaught"}
              => tasks[k].captured = <<>>

\* C3: the state alternates strictly: is_recording changes only at the
\* assignment inside a Toggle(), and every such assignment flips it, so no
\* two consecutive assignments set Recording.
C3_StateAlternates ==
    [][ /\ is_recording' # is_recording
            => \E t \in Threads :
                  tpc[t] \in {"start", "stop"} /\ tpc'[t] # tpc[t]
        /\ \A t \in Threads :
              (tpc[t] \in {"start", "stop"} /\ tpc'[t] # tpc[t])
                  => is_recording' = ~is_recording ]_vars

\* C3 witness: a third Toggle() has set Recording again
C3_Witness ==
    ntog >= 3 /\ is_recording /\ tres = "started" /\ NoToggleInProgress

C5_ShortNeverTranscribed ==
    \A k \in TaskIds :
        LET r == tasks[k]
            short == SampleCount(r.audio) * 10 < 3 * 16000
        IN  /\ (HasConcatenated(r) /\ short)
                  => r.res = "too_short" /\ r.ntranscribe = 0 /\ r.ninject = 0
            /\ r.ntranscribe > 0 => (HasConcatenated(r) /\ ~short)

\* C5 witness: a task has found its one-block buffer too short
C5_Witness ==
    \E k \in TaskIds :
        tasks[k].res = "too_short" /\ Len(tasks[k].audio) = 1

\* C6: when transcribe() raises in a background task, that task calls no
\* inject_text(); the failing step leaves the controller (flag, stream,
\* lock, threads inside on_toggle) untouched; and afterwards a Toggle()
\* can still enter whenever no other Toggle() is in progress.
C6_TranscribeErrorContained ==
    /\ [](\A k \in TaskIds :
             tasks[k].errAt > 0
                 => /\ tasks[k].pc = "done"
                    /\ tasks[k].res = "err_api"
                    /\ tasks[k].ninject = 0)
    /\ [][\A k \in TaskIds :
             (tasks[k].errAt = 0 /\ tasks'[k].errAt > 0)
                 => UNCHANGED << is_recording, stream, lock, open, active,
                                 tpc, audio_chunks >>]_vars
    /\ []((/\ \E k \in TaskIds : tasks[k].errAt > 0
           /\ NoToggleInProgress
           /\ ntog < MaxToggles)
              => \A t \in Threads : ENABLED on_toggle_enter(t))

\* C6 witness: after a task's transcribe() failed, a later Toggle() has
\* set Recording and started a stream
C6_Witness ==
    \E k \in TaskIds :
        /\ tasks[k].errAt > 0
        /\ is_recording /\ stream # None /\ stream \in active
        /\ stream > tasks[k].errAt
        /\ NoToggleInProgress

\* C7: when transcribe() returns the empty string the task ends without an
\* error and without an inject_text() call; inject_text() is only called
\* with a non-empty transcript.
C7_EmptyTranscriptNotInjected ==
    \A k \in TaskIds :
        LET r == tasks[k]
        IN  /\ (r.returned /\ r.text = <<>>)
                  => r.res = "empty" /\ r.ninject = 0 /\ r.errAt = 0
            /\ r.ninject > 0 => (r.returned /\ r.text # <<>>)

\* C7 witness: a task got the empty transcript and ended
C7_Witness ==
    \E k \in TaskIds :
        tasks[k].res = "empty" /\ tasks[k].returned /\ tasks[k].ntranscribe = 1

\* C8: round trip of one injection: when inject_text() has returned, no
\* other injection overlapped it, the clipboard was readable and the
\* clipboard writes went through, the clipboard it left equals the
\* clipboard it found.
C8_ClipboardRoundTrip ==
    \A k \in TaskIds :
        LET r == tasks[k]
        IN  (/\ r.res = "ok"
             /\ ~r.overlapped
             /\ r.readOk
             /\ ~r.writeFailed)
                => r.after = r.before

\* a background task is between its start and its end
InFlight(r) == r.pc # "done"

\* C9: Toggle() never waits for a background task: while a task is still
\* running, a Toggle() can enter whenever no other Toggle() is in
\* progress, and the lock is held only by a thread that is inside
\* on_toggle().
C9_ToggleNeverWaits ==
    (\E k \in TaskIds : InFlight(tasks[k]))
        => /\ \A t \in Threads : lock = t => tpc[t] # "idle"
           /\ (NoToggleInProgress /\ ntog < MaxToggles)
                 => \A t \in Threads : ENABLED on_toggle_enter(t)

\* C9 witness: a new recording is running, its Toggle() has returned, and
\* the task of the previous stop is still inside transcribe() or
\* inject_text()
C9_Witness ==
    \E k \in TaskIds :
        /\ InTranscribe(tasks[k]) \/ InInject(tasks[k])
        /\ is_recording /\ stream # None /\ stream \in active
        /\ lock = NoThread /\ NoToggleInProgress

\* C10: the temporary file is deleted on every exit path of transcribe():
\* whenever no transcribe() call is in progress the file does not exist.
C10_TempFileDeleted ==
    (\A k \in TaskIds : ~InTranscribe(tasks[k])) => tmp = NoFile

\* C11: a failure of play_sound() or notify() during a Toggle() does not
\* propagate: no Toggle() is ended by it, so after a start the stream is
\* open and after a stop the background task has been launched.
C11_CueFailureDoesNotPropagate ==
    NoToggleInProgress
        => /\ tres # "cue_failed_stop"
           /\ tres # "cue_failed_start"
           /\ (tres \in {"started", "cue_failed_start"} /\ is_recording)
                 => stream # None

\* C12: inject_text() calls are not mutually exclusive: while one
\* background task is inside inject_text(), another task that has its
\* transcript can begin its own injection; an overlap of two injections can
\* then leave the clipboard different from what it held before the first
\* began (the state C12_Witness describes).
C12_InjectionsNotExclusive ==
    \A j \in TaskIds, k \in TaskIds :
        (j # k /\ InInject(tasks[j]) /\ tasks[k].pc = "get")
            => ENABLED inject_get(k)

\* C12 witness: two injections overlapped, every clipboard read and write
\* succeeded, the first began on a clipboard without carriage returns, the
\* second took the first's text as its original, and after both have
\* returned the clipboard holds that text instead of the first's original
C12_Witness ==
    \E j \in TaskIds, k \in TaskIds :
        /\ j # k
        /\ tasks[j].res = "ok" /\ tasks[k].res = "ok"
        /\ tasks[j].overlapped /\ tasks[k].overlapped
        /\ tasks[j].readOk /\ tasks[k].readOk
        /\ ~tasks[j].writeFailed /\ ~tasks[k].writeFailed
        /\ tasks[j].before = <<"c">>
        /\ tasks[k].before = tasks[j].text
        /\ clipboard = tasks[j].text
        /\ clipboard # tasks[j].before

\* C13: the task a Recording-to-Idle Toggle() launches calls transcribe()
\* at most once and inject_text() at most once, it is launched with no
\* stream left in the global, and for a captured buffer of at least 0.3 s
\* it calls transcribe() exactly once, with that buffer.
C13_StopTranscribesItsBuffer ==
    /\ (NoToggleInProgress /\ tres = "stopped") => stream = None
    /\ \A k \in TaskIds :
          LET r == tasks[k]
              long == SampleCount(r.captured) * 10 >= 3 * 16000
          IN  /\ r.ntranscribe <= 1
              /\ r.ninject <= 1
              /\ (long /\ r.ntranscribe > 0) => r.audio = r.captured
              /\ (long /\ r.pc = "done") => r.ntranscribe = 1

\* C14: if the list a background task reads at its first test is empty,
\* the task ends there with "no audio captured": no transcribe() call, no
\* inject_text() call and no error.
C14_EmptyBufferAborts ==
    [][\A k \in TaskIds :
          (tasks[k].pc = "check" /\ tasks'[k] # tasks[k] /\ audio_chunks = <<>>)
              => /\ tasks'[k].pc = "done"
                 /\ tasks'[k].res = "no_audio"
                 /\ tasks'[k].ntranscribe = 0
                 /\ tasks'[k].ninject = 0]_vars

\* C14 witness: the task of a session in which no block was delivered has
\* ended with "no audio captured"
C14_Witness ==
    \E k \in TaskIds :
        /\ tasks[k].res = "no_audio" /\ tasks[k].pc = "done"
        /\ tasks[k].captured = <<>>
        /\ tasks[k].ntranscribe = 0 /\ tasks[k].ninject = 0

\* the Cmd+V chord of this injection has been sent and no other injection
\* has overlapped it so far
PastedAlone(r) == r.pc = "restore" /\ ~r.overlapped

C16_ClipboardFailureTolerated ==
    \A k \in TaskIds :
        LET r == tasks[k]
        IN  r.ninject > 0
               => /\ ~r.readOk => r.orig = <<>>
                  /\ (r.pc = "done" /\ (~r.readOk \/ r.writeFailed))
                        => r.res \in {"ok", "err_paste"}
                  /\ (r.res = "ok" /\ ~r.readOk /\ ~r.writeFailed)
                        => /\ r.after = <<>>
                           /\ ~r.overlapped => r.pasted = r.text

\* C16 witness: an injection whose clipboard read failed has written its
\* text, pasted it and restored the empty string
C16_Witness ==
    \E k \in TaskIds :
        /\ tasks[k].res = "ok" /\ ~tasks[k].readOk /\ ~tasks[k].writeFailed
        /\ tasks[k].before # <<>> /\ tasks[k].orig = <<>>
        /\ tasks[k].pasted = tasks[k].text
        /\ tasks[k].after = <<>>

\* C17: the sample buffer has a single writer: every block in the list
\* comes from the one stream of the current session, and from the stop
\* until that stop's background task has finished reading, the list is
\* exactly what the stop left (nothing appended, modified or replaced).
C17_BufferSingleWriter ==
    /\ \A i \in 1 .. Len(audio_chunks), j \in 1 .. Len(audio_chunks) :
          audio_chunks[i].sess = audio_chunks[j].sess
    /\ \A k \in TaskIds :
          tasks[k].pc \in {"check", "concat"}
              => audio_chunks = tasks[k].captured

\* C18: whenever no Toggle() is in progress and the lock is free, the flag
\* and the recorder agree: is_recording holds exactly when a stream is
\* bound to the global `stream`.
C18_FlagMatchesStream ==
    (NoToggleInProgress /\ lock = NoThread)
        => (is_recording <=> stream # None)

\* C19: concurrent transcribe() calls do not interfere through the
\* temporary file: each call uploads the audio it encoded itself, and no
\* call fails because the file is missing at open() or at os.remove().
C19_TempFileNotShared ==
    \A k \in TaskIds :
        /\ tasks[k].sent # NoFile => tasks[k].sent.data = tasks[k].audio
        /\ tasks[k].res \notin {"err_open", "err_remove"}

\* C20: a background task never ends with an uncaught error: whenever it
\* reaches np.concatenate the list it concatenates is non-empty.
C20_NoUncaughtError ==
    \A k \in TaskIds : tasks[k].res # "uncaught"

=============================================================================
